---- MODULE Spec2Model ----
(***************************************************************************)
(* Authentication and account-security core of assingment_10/backend:      *)
(* the account-lockout state machine of AuthService.authenticate_user, the *)
(* /auth/login route that answers it, the TokenManager's signed,           *)
(* time-bounded tokens, token refresh, the password rules of the schemas   *)
(* and of PasswordStrengthChecker, registration and password change, for   *)
(* requests served one at a time and for logins and registrations that     *)
(* run at the same time.                                                   *)
(*                                                                         *)
(* Time is counted in clock ticks; TicksPerSecond ticks make one second,   *)
(* so that datetime values (sub-second resolution) and the whole-second    *)
(* "exp"/"iat" claims of a token are different things.                     *)
(***************************************************************************)
EXTENDS Integers, Sequences, FiniteSets, TLC

VARIABLES
    now,      \* the wall clock read by datetime.utcnow(), in ticks
    users,    \* the "users" table: a sequence of rows
    reqs,     \* the login requests: input, loaded row, position, response
    jwt,      \* the token a caller of the TokenManager holds
    verdict   \* the outcome of the last verify_token call on that token

vars == <<now, users, reqs, jwt, verdict>>

---------------------------------------------------------------------------
(* Settings (config.py)                                                    *)

secret_key == "test-secret-key-change-in-production"
access_token_expire_minutes == 30
refresh_token_expire_days == 7
max_login_attempts == 5
lockout_duration_minutes == 15

---------------------------------------------------------------------------
(* Bounds of the model                                                     *)

TicksPerSecond == 2      \* resolution of the clock
MaxWindows == 2          \* the clock runs over this many lockout windows
MaxFailed == 6           \* cap on failed_login_attempts
MaxReq == 3              \* concurrent login requests
MaxTokNow == 6           \* the clock of the token specification, in ticks
MaxUses == 3             \* counted uses of one refresh token in a row
MaxRefreshNow == 4       \* the clock of the refresh specification, in ticks
MaxSalt == 2             \* salts a new hash may be made with

---------------------------------------------------------------------------
(* Optional values (None), timedelta, datetime <-> unix seconds            *)

Null == <<>>
Some(x) == <<x>>

Seconds(s) == s * TicksPerSecond
Minutes(m) == Seconds(m * 60)
Days(d) == Minutes(d * 24 * 60)

\* timegm(dt.utctimetuple()): the whole seconds of a datetime
Timestamp(t) == t \div TicksPerSecond
\* datetime.utcfromtimestamp(s)
FromTimestamp(s) == s * TicksPerSecond

LockoutTicks == Minutes(lockout_duration_minutes)

\* the clock starts after the unix epoch
Boot == Seconds(2)
MaxNow == Boot + MaxWindows * LockoutTicks + 1

---------------------------------------------------------------------------
(* Strings as sequences of characters, and str.lower()                     *)

UpperChars == <<"A", "B", "C", "D", "E", "F", "G", "H", "I", "J", "K", "L",
                "M", "N", "O", "P", "Q", "R", "S", "T", "U", "V", "W", "X",
                "Y", "Z">>
LowerChars == <<"a", "b", "c", "d", "e", "f", "g", "h", "i", "j", "k", "l",
                "m", "n", "o", "p", "q", "r", "s", "t", "u", "v", "w", "x",
                "y", "z">>

LowerChar(c) ==
    IF \E k \in DOMAIN UpperChars : UpperChars[k] = c
    THEN LowerChars[CHOOSE k \in DOMAIN UpperChars : UpperChars[k] = c]
    ELSE c

Lower(s) == [k \in DOMAIN s |-> LowerChar(s[k])]

\* the addresses the requests carry: the registered one, a case variant of
\* it, and one that was never registered
RegisteredEmail == <<"u", "@", "x">>
Emails == {RegisteredEmail, <<"U", "@", "X">>, <<"n", "@", "x">>}

CorrectPassword == "ValidPass123"
Passwords == {CorrectPassword, "WrongPassword123"}

---------------------------------------------------------------------------
(* Password hashing (utils/password.py)                                    *)

\* bcrypt: the hash determines the password it was made from
hash_password(password, salt) ==
    [scheme |-> "bcrypt", salt |-> salt, plain |-> password]

verify_password(plain_password, hashed_password) ==
    hashed_password.plain = plain_password

---------------------------------------------------------------------------
(* The users table (database.py)                                           *)

\* a row as create_user inserts it: the column defaults of class User
NewUser(id, email, password, salt) ==
    [id |-> id,
     email |-> Lower(email),
     hashed_password |-> hash_password(password, salt),
     is_active |-> TRUE,
     failed_login_attempts |-> 0,
     locked_until |-> Null,
     last_login |-> Null]

\* variant: the account still counts as locked at the instant locked_until
is_locked_inclusive(user, t) ==
    IF user.locked_until = Null
    THEN FALSE
    ELSE t <= user.locked_until[1]

is_locked(user, t) ==
    IF user.locked_until = Null
    THEN FALSE
    ELSE t < user.locked_until[1]

\* variant: the lookup compares the email as it was spelled
get_user_by_email_exact(db, email) ==
    LET hits == {i \in DOMAIN db : db[i].email = email}
    IN  IF hits = {}
        THEN Null
        ELSE Some(db[CHOOSE i \in hits : \A j \in hits : i <= j])

\* db.query(User).filter(User.email == email.lower()).first()
get_user_by_email(db, email) ==
    LET hits == {i \in DOMAIN db : db[i].email = Lower(email)}
    IN  IF hits = {}
        THEN Null
        ELSE Some(db[CHOOSE i \in hits : \A j \in hits : i <= j])

\* variant: the UPDATE is not addressed by primary key
CommitUnaddressed(db, loaded, changed) ==
    [i \in DOMAIN db |->
        [c \in DOMAIN db[i] |->
            IF changed[c] # loaded[c] THEN changed[c] ELSE db[i][c]]]

\* db.commit(): the UPDATE carries the columns the session changed on the
\* object it loaded, addressed by primary key
Commit(db, loaded, changed) ==
    [i \in DOMAIN db |->
        IF db[i].id = loaded.id
        THEN [c \in DOMAIN db[i] |->
                 IF changed[c] # loaded[c] THEN changed[c] ELSE db[i][c]]
        ELSE db[i]]

---------------------------------------------------------------------------
(* Signed tokens: jose.jwt as TokenManager uses it (auth.py)               *)

\* jwt.encode: datetime claims become whole unix seconds, and the payload
\* is signed with the key
JwtEncode(claims, key) ==
    [claims |-> [claims EXCEPT !.exp = Timestamp(@), !.iat = Timestamp(@)],
     key |-> key]

\* variant: the library does not look at exp
JwtDecodeIgnoresExp(token, key, t) ==
    IF token.key # key
    THEN [error |-> Some("Signature verification failed."), claims |-> Null]
    ELSE [error |-> Null, claims |-> Some(token.claims)]

\* jwt.decode: a JWTError for a bad signature or for exp < now (in whole
\* seconds), else the payload
JwtDecode(token, key, t) ==
    IF token.key # key
    THEN [error |-> Some("Signature verification failed."), claims |-> Null]
    ELSE IF token.claims.exp < Timestamp(t)
    THEN [error |-> Some("Signature has expired."), claims |-> Null]
    ELSE [error |-> Null, claims |-> Some(token.claims)]

\* variant: a zero expires_delta is taken as given
ExpireTakesZero(expires_delta, default, t) ==
    IF expires_delta # Null
    THEN t + expires_delta[1]
    ELSE t + default

\* `if expires_delta:` is false for None and for timedelta(0)
Expire(expires_delta, default, t) ==
    IF expires_delta # Null /\ expires_delta[1] # 0
    THEN t + expires_delta[1]
    ELSE t + default

create_access_token(data, expires_delta, t) ==
    JwtEncode([sub |-> data.sub,
               user_id |-> data.user_id,
               exp |-> Expire(expires_delta,
                              Minutes(access_token_expire_minutes), t),
               type |-> "access",
               iat |-> t],
              secret_key)

\* variant: the refresh token is stamped with the access type
create_refresh_token_typed_access(data, expires_delta, t) ==
    JwtEncode([sub |-> data.sub,
               user_id |-> data.user_id,
               exp |-> Expire(expires_delta,
                              Days(refresh_token_expire_days), t),
               type |-> "access",
               iat |-> t],
              secret_key)

create_refresh_token(data, expires_delta, t) ==
    JwtEncode([sub |-> data.sub,
               user_id |-> data.user_id,
               exp |-> Expire(expires_delta,
                              Days(refresh_token_expire_days), t),
               type |-> "refresh",
               iat |-> t],
              secret_key)

\* the AuthenticationError raised, or the TokenData returned
TokenFailure(message) == [error |-> Some(message), data |-> Null]

\* variant: the type claim is not compared with the expected type
verify_token_any_type(token, token_type, t) ==
    LET decoded == JwtDecode(token, secret_key, t)
        payload == decoded.claims[1]
    IN  IF decoded.error # Null
        THEN TokenFailure(<<"Token validation failed:", decoded.error[1]>>)
        ELSE IF payload.sub = Null
        THEN TokenFailure(<<"Token missing user information">>)
        ELSE IF payload.exp # 0 /\ FromTimestamp(payload.exp) < t
        THEN TokenFailure(<<"Token has expired">>)
        ELSE [error |-> Null,
              data |-> Some([email |-> payload.sub[1],
                             user_id |-> payload.user_id])]

verify_token(token, token_type, t) ==
    LET decoded == JwtDecode(token, secret_key, t)
        payload == decoded.claims[1]
    IN  IF decoded.error # Null
        THEN TokenFailure(<<"Token validation failed:", decoded.error[1]>>)
        ELSE IF payload.type # token_type
        THEN TokenFailure(<<"Invalid token type. Expected", token_type,
                            "got", payload.type>>)
        ELSE IF payload.sub = Null
        THEN TokenFailure(<<"Token missing user information">>)
        ELSE IF payload.exp # 0 /\ FromTimestamp(payload.exp) < t
        THEN TokenFailure(<<"Token has expired">>)
        ELSE [error |-> Null,
              data |-> Some([email |-> payload.sub[1],
                             user_id |-> payload.user_id])]

---------------------------------------------------------------------------
(* AuthService (auth.py)                                                   *)

LockedMessage ==
    <<"Account", "is", "temporarily", "locked", "due", "to", "too", "many",
      "failed", "attempts">>
DisabledMessage == <<"Account", "is", "disabled">>

\* what authenticate_user hands back: the user it returns (None: Null),
\* the AuthenticationError it raises, and the object it commits
Outcome(user, error, write) ==
    [user |-> user, error |-> error, write |-> write]

\* variant: an unknown email raises instead of returning None
NotFoundRaises == Outcome(Null, Some(<<"User", "not", "found">>), Null)

\* `if not user: return None`
NotFound == Outcome(Null, Null, Null)

\* variant: the lockout check is left out
GuardSkipsLock(user, t) ==
    IF ~user.is_active
    THEN Some(DisabledMessage)
    ELSE Null

\* variant: the is_active check is left out
GuardIgnoresDisabled(user, t) ==
    IF is_locked(user, t)
    THEN Some(LockedMessage)
    ELSE Null

\* the checks made before the password is looked at: the message of the
\* AuthenticationError raised, or Null
Guard(user, t) ==
    IF is_locked(user, t)
    THEN Some(LockedMessage)
    ELSE IF ~user.is_active
    THEN Some(DisabledMessage)
    ELSE Null

\* variant: the account locks one failure late
ReachedLimitLate(failed) == failed > max_login_attempts

ReachedLimit(failed) == failed >= max_login_attempts

\* variant: the failure that reaches the limit raises the locked error
RecordFailureRaises(user, t) ==
    LET failed == user.failed_login_attempts + 1
        counted == [user EXCEPT !.failed_login_attempts = failed]
    IN  IF ReachedLimit(failed)
        THEN Outcome(Null, Some(LockedMessage),
                     Some([counted EXCEPT
                              !.locked_until = Some(t + LockoutTicks)]))
        ELSE Outcome(Null, Null, Some(counted))

\* variant: the counter is held at the limit
RecordFailureClamps(user, t) ==
    LET failed == user.failed_login_attempts + 1
        counted == [user EXCEPT !.failed_login_attempts =
                       IF failed > max_login_attempts
                       THEN max_login_attempts ELSE failed]
    IN  Outcome(Null, Null,
                Some(IF ReachedLimit(failed)
                     THEN [counted EXCEPT
                              !.locked_until = Some(t + LockoutTicks)]
                     ELSE counted))

\* variant: the count starts again once a lockout has run out
RecordFailureRestarts(user, t) ==
    LET failed == IF user.locked_until # Null
                  THEN 1
                  ELSE user.failed_login_attempts + 1
        counted == [user EXCEPT !.failed_login_attempts = failed,
                                !.locked_until = Null]
    IN  Outcome(Null, Null,
                Some(IF ReachedLimit(failed)
                     THEN [counted EXCEPT
                              !.locked_until = Some(t + LockoutTicks)]
                     ELSE counted))

\* the wrong-password branch: count, lock at the limit, commit, return None
RecordFailure(user, t) ==
    LET failed == user.failed_login_attempts + 1
        counted == [user EXCEPT !.failed_login_attempts = failed]
    IN  Outcome(Null, Null,
                Some(IF ReachedLimit(failed)
                     THEN [counted EXCEPT
                              !.locked_until = Some(t + LockoutTicks)]
                     ELSE counted))

\* variant: a successful login leaves locked_until in place
RecordSuccessKeepsLock(user, t) ==
    LET fresh == [user EXCEPT !.failed_login_attempts = 0,
                              !.last_login = Some(t)]
    IN  Outcome(Some(fresh), Null, Some(fresh))

\* the right-password branch: reset, stamp last_login, commit, return user
RecordSuccess(user, t) ==
    LET fresh == [user EXCEPT !.failed_login_attempts = 0,
                              !.locked_until = Null,
                              !.last_login = Some(t)]
    IN  Outcome(Some(fresh), Null, Some(fresh))

\* authenticate_user on the row it loaded (Null: no such user)
Attempt(loaded, password, t) ==
    IF loaded = Null
    THEN NotFound
    ELSE IF Guard(loaded[1], t) # Null
    THEN Outcome(Null, Guard(loaded[1], t), Null)
    ELSE IF ~verify_password(password, loaded[1].hashed_password)
    THEN RecordFailure(loaded[1], t)
    ELSE RecordSuccess(loaded[1], t)

\* the table after the attempt's db.commit()
Stored(db, loaded, attempt) ==
    IF attempt.write = Null
    THEN db
    ELSE Commit(db, loaded[1], attempt.write[1])

create_token_pair(user, t) ==
    LET data == [sub |-> Some(user.email), user_id |-> Some(user.id)]
    IN  [access_token |-> create_access_token(data, Null, t),
         refresh_token |-> create_refresh_token(data, Null, t),
         token_type |-> "bearer",
         expires_in |-> access_token_expire_minutes * 60]

---------------------------------------------------------------------------
(* POST /auth/login (main.py)                                              *)

HasWord(message, word) == \E k \in DOMAIN message : message[k] = word

login(attempt, t) ==
    IF attempt.error # Null
    THEN [status |-> IF HasWord(attempt.error[1], "locked")
                     THEN 423 ELSE 401,
          detail |-> attempt.error[1],
          body |-> Null]
    ELSE IF attempt.user = Null
    THEN [status |-> 401,
          detail |-> <<"Incorrect", "email", "or", "password">>,
          body |-> Null]
    ELSE [status |-> 200,
          detail |-> Null,
          body |-> Some(create_token_pair(attempt.user[1], t))]

---------------------------------------------------------------------------
(* The state after start-up: one registered account, no request yet        *)

Requests == 1..MaxReq

Idle ==
    [pc |-> "idle", email |-> Null, password |-> "", at |-> 0,
     loaded |-> Null, response |-> Null]

Handled(email, password, t, loaded, response) ==
    [pc |-> "done", email |-> email, password |-> password, at |-> t,
     loaded |-> loaded, response |-> Some(response)]

Init ==
    /\ now = Boot
    /\ users = <<NewUser(1, RegisteredEmail, CorrectPassword, 1)>>
    /\ reqs = [r \in Requests |-> Idle]
    /\ jwt = Null
    /\ verdict = Null

---------------------------------------------------------------------------
(* Sequential operation: one request is served at a time                   *)

\* the counter is capped so that the state space is finite
Capped(attempt) ==
    attempt.write # Null =>
        attempt.write[1].failed_login_attempts <= MaxFailed

\* POST /auth/login, served from the query to the response
Login(email, password) ==
    LET loaded == get_user_by_email(users, email)
        attempt == Attempt(loaded, password, now)
    IN  /\ Capped(attempt)
        /\ users' = Stored(users, loaded, attempt)
        /\ reqs' = [reqs EXCEPT ![1] =
                       Handled(email, password, now, loaded,
                               login(attempt, now))]
        /\ UNCHANGED <<now, jwt, verdict>>

\* an administrator disables an account in the database
Deactivate(i) ==
    /\ users[i].is_active
    /\ users' = [users EXCEPT ![i].is_active = FALSE]
    /\ UNCHANGED <<now, reqs, jwt, verdict>>

\* time passes: to just before, exactly at, or just after the end of a
\* lockout window that started now
ClockSteps == {LockoutTicks - 1, LockoutTicks, LockoutTicks + 1}

Tick(d) ==
    /\ now + d <= MaxNow
    /\ now' = now + d
    /\ UNCHANGED <<users, reqs, jwt, verdict>>

Next ==
    \/ \E e \in Emails, p \in Passwords : Login(e, p)
    \/ \E i \in DOMAIN users : Deactivate(i)
    \/ \E d \in ClockSteps : Tick(d)

Spec == Init /\ [][Next]_vars

---------------------------------------------------------------------------
(* Concurrent operation: each request runs in its own session; the query   *)
(* and the commit of one request are separate steps                        *)

\* self.get_user_by_email(db, email): the session loads the row
Query(r, email, password) ==
    /\ reqs[r].pc = "idle"
    /\ reqs' = [reqs EXCEPT ![r] =
                   [Idle EXCEPT !.pc = "loaded", !.email = email,
                                !.password = password,
                                !.loaded = get_user_by_email(users, email)]]
    /\ UNCHANGED <<now, users, jwt, verdict>>

\* the rest of authenticate_user on the loaded object, db.commit(), and
\* the response
Answer(r) ==
    LET loaded == reqs[r].loaded
        attempt == Attempt(loaded, reqs[r].password, now)
    IN  /\ reqs[r].pc = "loaded"
        /\ users' = Stored(users, loaded, attempt)
        /\ reqs' = [reqs EXCEPT ![r] =
                       Handled(reqs[r].email, reqs[r].password, now, loaded,
                               login(attempt, now))]
        /\ UNCHANGED <<now, jwt, verdict>>

NextConc ==
    \/ \E r \in Requests, e \in Emails, p \in Passwords : Query(r, e, p)
    \/ \E r \in Requests : Answer(r)
    \/ \E d \in ClockSteps : Tick(d)

SpecConc == Init /\ [][NextConc]_vars

---------------------------------------------------------------------------
(* The TokenManager on its own: a token is issued with any data and any    *)
(* expires_delta, and verified at any later time; verdict is the outcome   *)
(* of the last verification of the token in hand                           *)

Subjects == {Null, Some(RegisteredEmail)}
UserIds == {Null, Some(1)}
TokenData == [sub : Subjects, user_id : UserIds]

\* expires_delta: omitted, zero, a second or a tick in the past, a tick,
\* a second, two seconds
Deltas == {Null, Some(0), Some(Seconds(-1)), Some(-1), Some(1),
           Some(Seconds(1)), Some(Seconds(2))}
TokenTypes == {"access", "refresh"}

\* a token in a caller's hand, with the call that made it
Issued(kind, data, expires_delta, token) ==
    [kind |-> kind, data |-> data, expires_delta |-> expires_delta,
     at |-> now, token |-> token]

IssueAccess(data, expires_delta) ==
    /\ jwt' = Some(Issued("access", data, expires_delta,
                           create_access_token(data, expires_delta, now)))
    /\ verdict' = Null
    /\ UNCHANGED <<now, users, reqs>>

IssueRefresh(data, expires_delta) ==
    /\ jwt' = Some(Issued("refresh", data, expires_delta,
                           create_refresh_token(data, expires_delta, now)))
    /\ verdict' = Null
    /\ UNCHANGED <<now, users, reqs>>

\* a token that was not signed with the server's key
Forge ==
    /\ jwt # Null
    /\ jwt[1].token.key = secret_key
    /\ jwt' = Some([jwt[1] EXCEPT !.token.key = "another-secret"])
    /\ verdict' = Null
    /\ UNCHANGED <<now, users, reqs>>

Verify(token_type) ==
    /\ jwt # Null
    /\ verdict' = Some([token_type |-> token_type, at |-> now,
                        result |-> verify_token(jwt[1].token, token_type,
                                                now)])
    /\ UNCHANGED <<now, users, reqs, jwt>>

TickTok ==
    /\ now < Boot + MaxTokNow
    /\ now' = now + 1
    /\ UNCHANGED <<users, reqs, jwt, verdict>>

NextTok ==
    \/ \E data \in TokenData, delta \in Deltas : IssueAccess(data, delta)
    \/ \E data \in TokenData, delta \in Deltas : IssueRefresh(data, delta)
    \/ Forge
    \/ \E k \in TokenTypes : Verify(k)
    \/ TickTok

SpecTok == Init /\ [][NextTok]_vars

---------------------------------------------------------------------------
(* Token refresh: AuthService.refresh_token (auth.py) behind               *)
(* POST /auth/refresh (main.py)                                            *)

InvalidRefreshToken == <<"Invalid", "refresh", "token">>

\* the new token pair, or the AuthenticationError raised
refresh_token(db, token, t) ==
    LET token_data == verify_token(token, "refresh", t)
        user == get_user_by_email(db, token_data.data[1].email)
    IN  IF token_data.error # Null
        THEN [error |-> token_data.error, pair |-> Null]
        ELSE IF user = Null \/ ~user[1].is_active
        THEN [error |-> Some(InvalidRefreshToken), pair |-> Null]
        ELSE [error |-> Null, pair |-> Some(create_token_pair(user[1], t))]

\* the route: an AuthenticationError is answered 401 with its message
refresh(outcome) ==
    IF outcome.error # Null
    THEN [status |-> 401, detail |-> outcome.error[1], body |-> Null]
    ELSE [status |-> 200, detail |-> Null, body |-> outcome.pair]

\* a client holds one token (jwt): one made by the token manager with a
\* chosen expires_delta, as the tests make them, or one of a pair that a
\* response carried; it presents it to POST /auth/refresh as often as it
\* likes

\* the subject of a refresh token: the registered account, or an address
\* that no account has
UnknownEmail == <<"n", "@", "x">>
RefreshData ==
    {[sub |-> Some(RegisteredEmail), user_id |-> Some(1)],
     [sub |-> Some(UnknownEmail), user_id |-> Some(999)]}

\* expires_delta of a refresh token: the default, expired, a second
RefreshDeltas == {Null, Some(Seconds(-1)), Some(Seconds(1))}

\* the client keeps a token of the pair it was sent last
Keep(kind) ==
    /\ reqs[1].pc \in {"done", "refreshed"}
    /\ reqs[1].response[1].body # Null
    /\ LET pair == reqs[1].response[1].body[1]
           token == IF kind = "access"
                    THEN pair.access_token
                    ELSE pair.refresh_token
       IN  jwt' = Some([kind |-> kind,
                        data |-> [sub |-> token.claims.sub,
                                  user_id |-> token.claims.user_id],
                        expires_delta |-> Null,
                        at |-> reqs[1].at,
                        token |-> token])
    /\ UNCHANGED <<now, users, reqs, verdict>>

\* how often in a row the token has been refreshed with success before
Uses(presented) ==
    IF /\ reqs[1].pc = "refreshed"
       /\ reqs[1].presented = presented
       /\ reqs[1].response[1].status = 200
    THEN IF reqs[1].uses < MaxUses THEN reqs[1].uses + 1 ELSE MaxUses
    ELSE 0

Refreshed(presented, t, uses, response) ==
    [pc |-> "refreshed", presented |-> presented, at |-> t, uses |-> uses,
     response |-> Some(response)]

\* variant: a refresh token can be used once
RefreshOnce ==
    /\ jwt # Null
    /\ reqs' = [reqs EXCEPT ![1] =
                   Refreshed(jwt[1], now, Uses(jwt[1]),
                             IF Uses(jwt[1]) > 0
                             THEN refresh([error |->
                                               Some(InvalidRefreshToken),
                                           pair |-> Null])
                             ELSE refresh(refresh_token(users,
                                                        jwt[1].token,
                                                        now)))]
    /\ UNCHANGED <<now, users, jwt, verdict>>

\* POST /auth/refresh with the token in hand
Refresh ==
    /\ jwt # Null
    /\ reqs' = [reqs EXCEPT ![1] =
                   Refreshed(jwt[1], now, Uses(jwt[1]),
                             refresh(refresh_token(users, jwt[1].token,
                                                   now)))]
    /\ UNCHANGED <<now, users, jwt, verdict>>

\* time passes, up to past the end of a token of one second
TickRefresh ==
    /\ now < Boot + MaxRefreshNow
    /\ now' = now + 1
    /\ UNCHANGED <<users, reqs, jwt, verdict>>

NextRefresh ==
    \/ Login(RegisteredEmail, CorrectPassword)
    \/ \E k \in TokenTypes : Keep(k)
    \/ \E data \in RefreshData, delta \in RefreshDeltas :
           IssueRefresh(data, delta)
    \/ Forge
    \/ Refresh
    \/ \E i \in DOMAIN users : Deactivate(i)
    \/ TickRefresh

SpecRefresh == Init /\ [][NextRefresh]_vars

---------------------------------------------------------------------------
(* Password rules: settings (config.py), the schema validators             *)
(* (schemas.py) and PasswordStrengthChecker (utils/password.py)            *)

min_password_length == 8
max_password_length == 128
require_uppercase == TRUE
require_lowercase == TRUE
require_numbers == TRUE
require_special_chars == FALSE

\* the passwords the requests carry, each with the characters it is
\* spelled with; the last one is one character too long
TooLong == "a*129"
Spell ==
    "ValidPass123" :> <<"V", "a", "l", "i", "d", "P", "a", "s", "s", "1",
                        "2", "3">>
    @@ "WrongPassword123" :> <<"W", "r", "o", "n", "g", "P", "a", "s", "s",
                               "w", "o", "r", "d", "1", "2", "3">>
    @@ "NewStrongPass456!" :> <<"N", "e", "w", "S", "t", "r", "o", "n",
                                "g", "P", "a", "s", "s", "4", "5", "6",
                                "!">>
    @@ "weak" :> <<"w", "e", "a", "k">>
    @@ "password123" :> <<"p", "a", "s", "s", "w", "o", "r", "d", "1", "2",
                          "3">>
    @@ "Password123" :> <<"P", "a", "s", "s", "w", "o", "r", "d", "1", "2",
                          "3">>
    @@ "123456789" :> <<"1", "2", "3", "4", "5", "6", "7", "8", "9">>
    @@ "qwerty123" :> <<"q", "w", "e", "r", "t", "y", "1", "2", "3">>
    @@ "abc123def" :> <<"a", "b", "c", "1", "2", "3", "d", "e", "f">>
    @@ "Welcome123" :> <<"W", "e", "l", "c", "o", "m", "e", "1", "2", "3">>
    @@ "nouppercase123" :> <<"n", "o", "u", "p", "p", "e", "r", "c", "a",
                             "s", "e", "1", "2", "3">>
    @@ "NOLOWERCASE123" :> <<"N", "O", "L", "O", "W", "E", "R", "C", "A",
                             "S", "E", "1", "2", "3">>
    @@ "NoNumbers" :> <<"N", "o", "N", "u", "m", "b", "e", "r", "s">>
    @@ "Tr0ub4dor&3ExtraLong!" :> <<"T", "r", "0", "u", "b", "4", "d", "o",
                                    "r", "&", "3", "E", "x", "t", "r", "a",
                                    "L", "o", "n", "g", "!">>
    @@ "" :> <<>>
    @@ TooLong :> [k \in 1..(max_password_length + 1) |-> "a"]

Candidates == DOMAIN Spell

Range(s) == {s[k] : k \in DOMAIN s}

\* the character classes of the regular expressions
Uppercase == Range(UpperChars)
Lowercase == Range(LowerChars)
Numbers == {"0", "1", "2", "3", "4", "5", "6", "7", "8", "9"}
SpecialChars ==
    {"!", "@", "#", "$", "%", "^", "&", "*", "(", ")", ",", ".", "?", "\"",
     ":", "{", "}", "|", "<", ">"}
Whitespace == {" "}

\* re.search(r'[...]', v)
Search(class, v) == \E k \in DOMAIN v : v[k] \in class

\* pattern in v
Contains(v, pattern) ==
    \E k \in 0..(Len(v) - Len(pattern)) :
        SubSeq(v, k + 1, k + Len(pattern)) = pattern

\* the complexity requirements that v does not meet, as both validators
\* collect them
MissingClasses(v) ==
    {c \in {"uppercase", "lowercase", "number", "special"} :
        \/ c = "uppercase" /\ require_uppercase /\ ~Search(Uppercase, v)
        \/ c = "lowercase" /\ require_lowercase /\ ~Search(Lowercase, v)
        \/ c = "number" /\ require_numbers /\ ~Search(Numbers, v)
        \/ c = "special" /\ require_special_chars
               /\ ~Search(SpecialChars, v)}

\* UserCreate.validate_password, line 72
common_patterns ==
    {<<"1", "2", "3", "4", "5", "6">>,
     <<"p", "a", "s", "s", "w", "o", "r", "d">>,
     <<"q", "w", "e", "r", "t", "y">>,
     <<"a", "b", "c", "1", "2", "3">>}

\* UserCreate.validate_password: the ValueError raised, or none
validate_password(v) ==
    IF v = <<>>
    THEN Some("Password is required")
    ELSE IF Len(v) < min_password_length
    THEN Some("Password must be at least 8 characters long")
    ELSE IF Len(v) > max_password_length
    THEN Some("Password must not exceed 128 characters")
    ELSE IF MissingClasses(v) # {}
    THEN Some("Password must contain")
    ELSE IF \E pattern \in common_patterns : Contains(Lower(v), pattern)
    THEN Some("Password contains common weak patterns")
    ELSE Null

\* PasswordChange.validate_required_fields: `not v or not v.strip()`
validate_required_fields(v) ==
    IF \A k \in DOMAIN v : v[k] \in Whitespace
    THEN Some("This field is required")
    ELSE Null

\* variant: the schema accepts every new password
validate_new_password_lenient(v) == Null

\* PasswordChange.validate_new_password
validate_new_password(v) ==
    IF v = <<>>
    THEN Some("New password is required")
    ELSE IF Len(v) < min_password_length
    THEN Some("Password must be at least 8 characters long")
    ELSE IF Len(v) > max_password_length
    THEN Some("Password must not exceed 128 characters")
    ELSE IF MissingClasses(v) # {}
    THEN Some("Password must contain")
    ELSE Null

SamePasswordMessage == "New password must be different from current password"
MismatchMessage == "New password confirmation does not match"

\* PasswordChange.validate_password_change, on the whole model
validate_password_change(current_password, new_password, confirm_new_password) ==
    IF new_password = current_password
    THEN Some(SamePasswordMessage)
    ELSE IF new_password # confirm_new_password
    THEN Some(MismatchMessage)
    ELSE Null

\* the validators applied to each password a request may carry
RequiredFieldError ==
    [password \in Candidates |-> validate_required_fields(Spell[password])]
NewPasswordError ==
    [password \in Candidates |-> validate_new_password(Spell[password])]
PasswordError ==
    [password \in Candidates |-> validate_password(Spell[password])]

\* the errors pydantic reports for a PasswordChange body: those of the
\* field validators, each field stopping at its first error, and those of
\* the model validator when every field passed
Errors(checks) == {c[1] : c \in checks \ {Null}}

PasswordChange(current_password, new_password, confirm_new_password) ==
    LET fields ==
            Errors({RequiredFieldError[current_password],
                    IF RequiredFieldError[new_password] # Null
                    THEN RequiredFieldError[new_password]
                    ELSE NewPasswordError[new_password]})
    IN  IF fields # {}
        THEN fields
        ELSE Errors({validate_password_change(current_password,
                                              new_password,
                                              confirm_new_password)})

\* the messages of an errors list; the order of the messages and the
\* repetition of one message are left out
TooShortMessage == <<"Password must be at least 8 characters long">>
TooLongMessage == <<"Password must not exceed 128 characters">>
MissingMessage(class) == <<"Password must contain at least one", class>>
CommonMessage(common) == <<"Password contains common weak pattern:", common>>

\* PasswordStrengthChecker.check_length
check_length(password) ==
    [valid |-> /\ ~(Len(password) < min_password_length)
               /\ ~(Len(password) > max_password_length),
     errors |-> {m \in {TooShortMessage, TooLongMessage} :
                    \/ /\ m = TooShortMessage
                       /\ Len(password) < min_password_length
                    \/ /\ m = TooLongMessage
                       /\ Len(password) > max_password_length},
     score |-> (IF Len(password) >= min_password_length THEN 1 ELSE 0)
               + (IF Len(password) >= 12 THEN 1 ELSE 0)
               + (IF Len(password) >= 16 THEN 1 ELSE 0)]

\* PasswordStrengthChecker.check_complexity: a class scores when it is
\* present, unless it is required and missing
check_complexity(password) ==
    [valid |-> MissingClasses(password) = {},
     errors |-> {MissingMessage(class) : class \in MissingClasses(password)},
     score |-> (IF Search(Uppercase, password) THEN 1 ELSE 0)
               + (IF Search(Lowercase, password) THEN 1 ELSE 0)
               + (IF Search(Numbers, password) THEN 1 ELSE 0)
               + (IF Search(SpecialChars, password) THEN 1 ELSE 0)]

\* PasswordStrengthChecker.check_common_patterns, lines 111-115
common_passwords ==
    {<<"1", "2", "3", "4", "5", "6">>,
     <<"p", "a", "s", "s", "w", "o", "r", "d">>,
     <<"q", "w", "e", "r", "t", "y">>,
     <<"a", "b", "c", "1", "2", "3">>,
     <<"l", "e", "t", "m", "e", "i", "n">>,
     <<"w", "e", "l", "c", "o", "m", "e">>,
     <<"m", "o", "n", "k", "e", "y">>,
     <<"1", "2", "3", "4", "5", "6", "7", "8", "9", "0">>,
     <<"a", "d", "m", "i", "n">>,
     <<"g", "u", "e", "s", "t">>,
     <<"1", "2", "3", "4", "5", "6", "7", "8", "9">>,
     <<"p", "a", "s", "s", "w", "o", "r", "d", "1", "2", "3">>,
     <<"q", "w", "e", "r", "t", "y", "1", "2", "3">>}

sequences ==
    {<<"1", "2", "3">>, <<"2", "3", "4">>, <<"3", "4", "5">>,
     <<"4", "5", "6">>, <<"5", "6", "7">>, <<"6", "7", "8">>,
     <<"7", "8", "9">>, <<"a", "b", "c">>, <<"b", "c", "d">>,
     <<"c", "d", "e">>}

keyboard_patterns ==
    {<<"q", "w", "e", "r", "t", "y">>, <<"a", "s", "d", "f">>,
     <<"z", "x", "c", "v">>, <<"1", "2", "3", "4">>,
     <<"4", "3", "2", "1">>}

\* re.search(r'(.)\1{2,}', password): a character three times in a row
Repetitive(password) ==
    \E k \in 1..(Len(password) - 2) :
        password[k] = password[k + 1] /\ password[k] = password[k + 2]

Found(patterns, password) ==
    {pattern \in patterns : Contains(Lower(password), pattern)}

\* variant: a sequence of three characters is a violation too
check_common_patterns_strict(password) ==
    LET common == Found(common_passwords, password)
        seqs == Found(sequences, password)
        keys == Found(keyboard_patterns, password)
        none == /\ common = {} /\ seqs = {} /\ keys = {}
                /\ ~Repetitive(password)
    IN  [valid |-> common = {} /\ seqs = {},
         errors |-> {CommonMessage(c) : c \in common \cup seqs},
         patterns_found |-> [common |-> common, sequences |-> seqs,
                             keyboard |-> keys,
                             repetitive |-> Repetitive(password)],
         score |-> (IF none THEN 2 ELSE 0)
                   - Cardinality(seqs)
                   - (IF Repetitive(password) THEN 1 ELSE 0)
                   - Cardinality(keys)]

check_common_patterns(password) ==
    LET common == Found(common_passwords, password)
        seqs == Found(sequences, password)
        keys == Found(keyboard_patterns, password)
        none == /\ common = {} /\ seqs = {} /\ keys = {}
                /\ ~Repetitive(password)
    IN  [valid |-> common = {},
         errors |-> {CommonMessage(c) : c \in common},
         patterns_found |-> [common |-> common, sequences |-> seqs,
                             keyboard |-> keys,
                             repetitive |-> Repetitive(password)],
         score |-> (IF none THEN 2 ELSE 0)
                   - Cardinality(seqs)
                   - (IF Repetitive(password) THEN 1 ELSE 0)
                   - Cardinality(keys)]

\* the normalized score is a float, a multiple of 12.5: it is held as a
\* number of half points
Points(n) == 2 * n
max_possible_score == 8

Min(a, b) == IF a < b THEN a ELSE b
Max(a, b) == IF a > b THEN a ELSE b

\* variant: the score is not held between 0 and 100
NormalizeUnclamped(total_score) ==
    (Points(total_score) * 100) \div max_possible_score

\* min(100, max(0, (total_score / max_possible_score) * 100))
Normalize(total_score) ==
    Min(Points(100),
        Max(0, (Points(total_score) * 100) \div max_possible_score))

\* the strength level of a normalized score
StrengthOf(normalized_score) ==
    IF normalized_score >= Points(80) THEN "very_strong"
    ELSE IF normalized_score >= Points(60) THEN "strong"
    ELSE IF normalized_score >= Points(40) THEN "medium"
    ELSE IF normalized_score >= Points(20) THEN "weak"
    ELSE "very_weak"

\* PasswordStrengthChecker.get_strength_score; the entropy, a float that
\* takes no part in the score, is left out
get_strength_score(password) ==
    LET length_check == check_length(password)
        complexity_check == check_complexity(password)
        pattern_check == check_common_patterns(password)
        total_score == length_check.score + complexity_check.score
                       + pattern_check.score
    IN  [valid |-> /\ length_check.valid
                   /\ complexity_check.valid
                   /\ pattern_check.valid,
         total_score |-> total_score,
         score |-> Normalize(total_score),
         strength |-> StrengthOf(Normalize(total_score)),
         errors |-> length_check.errors \cup complexity_check.errors
                    \cup pattern_check.errors,
         details |-> [length |-> length_check,
                      complexity |-> complexity_check,
                      patterns |-> pattern_check]]

---------------------------------------------------------------------------
(* Changing the password: the bearer dependencies (dependencies.py),       *)
(* AuthService.change_password (auth.py) and POST /users/change-password   *)
(* (main.py)                                                               *)

\* db.query(User).filter(User.id == user_id).first()
get_user_by_id(db, user_id) ==
    LET hits == {i \in DOMAIN db : db[i].id = user_id}
    IN  IF hits = {}
        THEN Null
        ELSE Some(db[CHOOSE i \in hits : \A j \in hits : i <= j])

\* the HTTPException a dependency raises, or the user it returns
Denied(status, detail) ==
    [user |-> Null,
     error |-> Some([status |-> status, detail |-> detail, body |-> Null])]

\* get_current_user: credentials is the bearer token, or none
get_current_user(credentials, db, t) ==
    LET token_data == verify_token(credentials[1], "access", t)
        user == get_user_by_email(db, token_data.data[1].email)
    IN  IF credentials = Null
        THEN Denied(401, "Missing authentication credentials")
        ELSE IF token_data.error # Null
        THEN Denied(401, "Could not validate credentials")
        ELSE IF user = Null
        THEN Denied(401, "Could not validate credentials")
        ELSE [user |-> user, error |-> Null]

get_current_active_user(credentials, db, t) ==
    LET current_user == get_current_user(credentials, db, t)
    IN  IF current_user.error # Null
        THEN current_user
        ELSE IF ~current_user.user[1].is_active
        THEN Denied(403, "Inactive user account")
        ELSE current_user

IncorrectMessage == "Current password is incorrect"

\* bcrypt draws a salt for the new hash: one the old hash does not have
Salts == 1..MaxSalt
NewSalt(hashed_password) == (hashed_password.salt % MaxSalt) + 1

\* variant: the new hash is stored before the current password is checked
change_password_stores_first(db, user_id, current_password, new_password) ==
    LET user == get_user_by_id(db, user_id)
        changed == [user[1] EXCEPT
                       !.hashed_password =
                           hash_password(new_password, NewSalt(@))]
    IN  IF user = Null
        THEN Outcome(Null, Some("User not found"), Null)
        ELSE IF ~verify_password(current_password, user[1].hashed_password)
        THEN Outcome(Null, Some(IncorrectMessage), Some(changed))
        ELSE IF verify_password(new_password, user[1].hashed_password)
        THEN Outcome(Null, Some(SamePasswordMessage), Null)
        ELSE Outcome(Null, Null, Some(changed))

\* AuthService.change_password: the AuthenticationError raised, or the row
\* with the new hash that is committed
change_password(db, user_id, current_password, new_password) ==
    LET user == get_user_by_id(db, user_id)
        changed == [user[1] EXCEPT
                       !.hashed_password =
                           hash_password(new_password, NewSalt(@))]
    IN  IF user = Null
        THEN Outcome(Null, Some("User not found"), Null)
        ELSE IF ~verify_password(current_password, user[1].hashed_password)
        THEN Outcome(Null, Some(IncorrectMessage), Null)
        ELSE IF verify_password(new_password, user[1].hashed_password)
        THEN Outcome(Null, Some(SamePasswordMessage), Null)
        ELSE Outcome(Null, Null, Some(changed))

\* the request as FastAPI serves it: the dependency first, then the
\* validation of the body, which is answered 422 with the errors found,
\* then the handler, which answers an AuthenticationError with 400
users_change_password(db, credentials, body, t) ==
    LET current_user == get_current_active_user(credentials, db, t)
        errors == PasswordChange(body.current_password, body.new_password,
                                 body.confirm_new_password)
        outcome == change_password(db, current_user.user[1].id,
                                   body.current_password, body.new_password)
    IN  IF current_user.error # Null
        THEN [response |-> current_user.error[1], db |-> db]
        ELSE IF errors # {}
        THEN [response |-> [status |-> 422, detail |-> errors,
                            body |-> Null],
              db |-> db]
        ELSE IF outcome.error # Null
        THEN [response |-> [status |-> 400, detail |-> outcome.error[1],
                            body |-> Null],
              db |-> Stored(db, get_user_by_id(db, current_user.user[1].id),
                            outcome)]
        ELSE [response |-> [status |-> 200, detail |-> Null,
                            body |-> Some([message |->
                                               "Password changed successfully",
                                           success |-> TRUE])],
              db |-> Stored(db, get_user_by_id(db, current_user.user[1].id),
                            outcome)]

\* the passwords a change request carries in its three fields
ChangePasswords ==
    {CorrectPassword, "NewStrongPass456!", "Password123", "password123",
     "weak"}

\* the confirmation repeats the new password, or is something else
Bodies ==
    {body \in [current_password : ChangePasswords,
               new_password : ChangePasswords,
               confirm_new_password : ChangePasswords] :
        body.confirm_new_password \in {body.new_password, CorrectPassword}}

Changed(body, t, response) ==
    [pc |-> "changed", body |-> body, at |-> t, response |-> Some(response)]

\* POST /users/change-password with the token in hand as bearer
ChangePassword(body) ==
    LET served == users_change_password(users,
                                        IF jwt = Null THEN Null
                                        ELSE Some(jwt[1].token),
                                        body, now)
    IN  /\ users' = served.db
        /\ reqs' = [reqs EXCEPT ![1] = Changed(body, now, served.response)]
        /\ UNCHANGED <<now, jwt, verdict>>

\* expires_delta of a bearer token: the default, or expired
BearerDeltas == {Null, Some(Seconds(-1))}

NextChange ==
    \/ \E data \in RefreshData, delta \in BearerDeltas :
           IssueAccess(data, delta)
    \/ IssueRefresh([sub |-> Some(RegisteredEmail), user_id |-> Some(1)],
                    Null)
    \/ Forge
    \/ \E body \in Bodies : ChangePassword(body)
    \/ \E i \in DOMAIN users : Deactivate(i)

SpecChange == Init /\ [][NextChange]_vars

---------------------------------------------------------------------------
(* Registration: the UserCreate schema (schemas.py), AuthService           *)
(* create_user (auth.py) and POST /auth/register (main.py); and the        *)
(* strength endpoint GET /utils/password-strength (main.py)                *)

\* UserCreate.validate_password_confirmation, on the whole model
validate_password_confirmation(password, confirm_password) ==
    IF password # confirm_password
    THEN Some("Password confirmation does not match")
    ELSE Null

\* the errors pydantic reports for a UserCreate body
UserCreate(password, confirm_password) ==
    LET fields == Errors({PasswordError[password]})
    IN  IF fields # {}
        THEN fields
        ELSE Errors({validate_password_confirmation(password,
                                                    confirm_password)})

\* AuthService.create_user: the AuthenticationError raised, or the row
\* inserted, with the next id
create_user(db, email, password, salt) ==
    IF get_user_by_email(db, email) # Null
    THEN Outcome(Null, Some("Email already registered"), Null)
    ELSE LET db_user == NewUser(Len(db) + 1, email, password, salt)
         IN  Outcome(Some(db_user), Null, Some(db_user))

\* the request as FastAPI serves it: a body that fails validation is
\* answered 422, an AuthenticationError 400, and the new user 201
register(db, email, password, confirm_password, salt) ==
    LET errors == UserCreate(password, confirm_password)
        outcome == create_user(db, Lower(email), password, salt)
    IN  IF errors # {}
        THEN [response |-> [status |-> 422, detail |-> errors,
                            body |-> Null],
              db |-> db]
        ELSE IF outcome.error # Null
        THEN [response |-> [status |-> 400, detail |-> outcome.error[1],
                            body |-> Null],
              db |-> db]
        ELSE [response |-> [status |-> 201, detail |-> Null,
                            body |-> outcome.user],
              db |-> Append(db, outcome.write[1])]

Registered(email, password, confirm_password, t, response) ==
    [pc |-> "registered", email |-> email, password |-> password,
     confirm_password |-> confirm_password, at |-> t,
     response |-> Some(response)]

\* POST /auth/register
Register(email, password, confirm_password, salt) ==
    LET served == register(users, email, password, confirm_password, salt)
    IN  /\ users' = served.db
        /\ reqs' = [reqs EXCEPT ![1] =
                       Registered(email, password, confirm_password, now,
                                  served.response)]
        /\ UNCHANGED <<now, jwt, verdict>>

\* validate_password_strength applied to each password a request may
\* carry
validate_password_strength ==
    [password \in Candidates |-> get_strength_score(Spell[password])]

\* GET /utils/password-strength: verdict is what the checker said last
check_password_strength(password) ==
    [password |-> password,
     password_length |-> Len(Spell[password]),
     strength |-> validate_password_strength[password]]

CheckStrength(password) ==
    /\ verdict' = Some(check_password_strength(password))
    /\ UNCHANGED <<now, users, reqs, jwt>>

\* the passwords a registration request carries
RegisterCandidates == Candidates \ {"Tr0ub4dor&3ExtraLong!"}

NextRegister ==
    \/ \E email \in Emails, password \in RegisterCandidates, salt \in Salts :
           \E confirm \in {password, CorrectPassword} :
               Register(email, password, confirm, salt)
    \/ \E password \in Candidates : CheckStrength(password)

SpecRegister == Init /\ [][NextRegister]_vars

---------------------------------------------------------------------------
(* The strength checker, asked about any password before a registration    *)

\* the passwords a registration carries here: one that the schema accepts
\* and one that it refuses
RegisterPasswords == {CorrectPassword, "weak"}

NextStrength ==
    \/ \E password \in Candidates : CheckStrength(password)
    \/ \E email \in Emails, password \in RegisterPasswords :
           Register(email, password, password, 1)

SpecStrength == Init /\ [][NextStrength]_vars

---------------------------------------------------------------------------
(* Several accounts: registration and login on one users table, served one *)
(* request at a time                                                       *)

\* the addresses of two accounts, each in two spellings
AccountEmails ==
    {RegisteredEmail, <<"U", "@", "X">>, UnknownEmail, <<"N", "@", "X">>}

\* a lockout window passes
Lapse ==
    /\ now < Boot + LockoutTicks
    /\ now' = now + LockoutTicks
    /\ UNCHANGED <<users, reqs, jwt, verdict>>

NextAccounts ==
    \/ \E email \in AccountEmails, password \in RegisterPasswords :
           \E confirm \in {password, CorrectPassword} :
               Register(email, password, confirm, 1)
    \/ \E e \in AccountEmails, p \in Passwords : Login(e, p)
    \/ Lapse

SpecAccounts == Init /\ [][NextAccounts]_vars

---------------------------------------------------------------------------
(* Concurrent logins of one account, each client sending one request after *)
(* the other: the lockout can be committed while other requests are under  *)
(* way                                                                     *)

\* the clients that log in at the same time
Clients == 1..2

\* the client of request r has its answer and is ready for the next one
Again(r) ==
    /\ reqs[r].pc = "done"
    /\ reqs' = [reqs EXCEPT ![r] = Idle]
    /\ UNCHANGED <<now, users, jwt, verdict>>

NextLock ==
    \/ \E r \in Clients, p \in Passwords : Query(r, RegisteredEmail, p)
    \/ \E r \in Clients : Answer(r)
    \/ \E r \in Clients : Again(r)
    \/ Lapse

SpecLock == Init /\ [][NextLock]_vars

---------------------------------------------------------------------------
(* Concurrent registrations: the look-up of create_user and its INSERT are *)
(* separate steps of a request, and the users table has a unique index on  *)
(* email (database.py)                                                     *)

RegistrationFailed == "Registration failed. Please try again."

\* db.add(db_user); db.commit(): the IntegrityError of the unique index,
\* or the table with the new row
Insert(db, db_user) ==
    IF \E i \in DOMAIN db : db[i].email = db_user.email
    THEN [error |-> Some("IntegrityError"), db |-> db]
    ELSE [error |-> Null, db |-> Append(db, db_user)]

\* the route's answer to an exception that is no AuthenticationError
InternalError(detail) == [status |-> 500, detail |-> detail, body |-> Null]

\* the request is validated and create_user looks the email up: a body
\* that fails validation and an email that is found are answered at once
Enroll(r, email, password) ==
    LET served == register(users, email, password, password, 1)
    IN  /\ reqs[r].pc = "idle"
        /\ reqs' = [reqs EXCEPT ![r] =
                       IF served.response.status = 201
                       THEN [Registered(email, password, password, now,
                                        served.response)
                                EXCEPT !.pc = "checked", !.response = Null]
                       ELSE Registered(email, password, password, now,
                                       served.response)]
        /\ UNCHANGED <<now, users, jwt, verdict>>

\* the rest of create_user: the row is inserted and committed
Complete(r) ==
    LET db_user == NewUser(Len(users) + 1, reqs[r].email, reqs[r].password,
                           1)
        inserted == Insert(users, db_user)
    IN  /\ reqs[r].pc = "checked"
        /\ users' = inserted.db
        /\ reqs' = [reqs EXCEPT ![r] =
                       [@ EXCEPT !.pc = "registered",
                                 !.response =
                                     Some(IF inserted.error # Null
                                          THEN InternalError(
                                                   RegistrationFailed)
                                          ELSE [status |-> 201,
                                                detail |-> Null,
                                                body |-> Some(db_user)])]]
        /\ UNCHANGED <<now, jwt, verdict>>

\* the client of request r has its answer and is ready for the next one
Retry(r) ==
    /\ reqs[r].pc = "registered"
    /\ reqs' = [reqs EXCEPT ![r] = Idle]
    /\ UNCHANGED <<now, users, jwt, verdict>>

NextEnroll ==
    \/ \E r \in Clients, email \in AccountEmails,
          password \in RegisterPasswords : Enroll(r, email, password)
    \/ \E r \in Clients : Complete(r)
    \/ \E r \in Clients : Retry(r)

SpecEnroll == Init /\ [][NextEnroll]_vars

---------------------------------------------------------------------------
(* Vocabulary of the properties                                            *)

\* the request the sequential client made last, and its parts
Last == reqs[1]
Served == Last.pc = "done"
Reply == Last.response[1]
Known == Last.loaded # Null
Loaded == Last.loaded[1]
WrongPassword == ~verify_password(Last.password, Loaded.hashed_password)

RowIn(db, id) == db[CHOOSE i \in DOMAIN db : db[i].id = id]
Stored_ == RowIn(users, Loaded.id)

InvalidCredentials(reply) ==
    /\ reply.status = 401
    /\ reply.detail = <<"Incorrect", "email", "or", "password">>
    /\ reply.body = Null

AccountLocked(reply) ==
    /\ reply.status = 423
    /\ reply.detail = LockedMessage
    /\ reply.body = Null

AccountDisabled(reply) ==
    /\ reply.status = 401
    /\ reply.detail = DisabledMessage
    /\ reply.body = Null

TokenPair(reply) ==
    /\ reply.status = 200
    /\ reply.body # Null

\* a step of Spec that serves a login request for `email` with `password`
LoginStep(email, password) ==
    /\ reqs' # reqs
    /\ reqs'[1].email = email
    /\ reqs'[1].password = password

\* what a login with `password` would be answered for `user` at time t
WouldReply(user, password, t) == login(Attempt(Some(user), password, t), t)

---------------------------------------------------------------------------
(* C1: from failed_login_attempts = 0 and no locked_until, the k-th        *)
(* consecutive wrong-password login leaves the counter at k; for k below   *)
(* max_login_attempts the account is not locked; the one that makes the    *)
(* counter max_login_attempts sets locked_until = now + lockout duration,  *)
(* and any login inside that window is then answered as locked.            *)

LockoutOnNthFailure ==
    [][\A e \in Emails, p \in Passwords, k \in 1..max_login_attempts :
        LET found == get_user_by_email(users, e)
            after == RowIn(users', found[1].id)
        IN  ( /\ LoginStep(e, p)
              /\ found # Null
              /\ Guard(found[1], now) = Null
              /\ found[1].locked_until = Null
              /\ found[1].failed_login_attempts = k - 1
              /\ ~verify_password(p, found[1].hashed_password) )
            => /\ after.failed_login_attempts = k
               /\ k < max_login_attempts =>
                     /\ after.locked_until = Null
                     /\ ~is_locked(after, now)
               /\ k = max_login_attempts =>
                     /\ after.locked_until = Some(now + LockoutTicks)
                     /\ \A q \in Passwords,
                           t \in {now, now + LockoutTicks - 1} :
                           AccountLocked(WouldReply(after, q, t))
    ]_vars

\* the fifth failure has just locked the fresh account
LockedOnNthFailure ==
    /\ Served /\ Known /\ WrongPassword
    /\ Loaded.locked_until = Null
    /\ Loaded.failed_login_attempts = max_login_attempts - 1
    /\ Stored_.failed_login_attempts = max_login_attempts
    /\ Stored_.locked_until = Some(Last.at + LockoutTicks)

---------------------------------------------------------------------------
(* C2: while the account is locked (now < locked_until) a login with the   *)
(* correct password, and equally one with a wrong password, is answered    *)
(* as locked, carries no tokens, and leaves the users table unchanged      *)
(* (counter, locked_until and last_login included).                        *)

LockedAttemptChangesNothing ==
    [][\A e \in Emails, p \in Passwords :
        LET found == get_user_by_email(users, e)
        IN  ( /\ LoginStep(e, p)
              /\ found # Null
              /\ found[1].locked_until # Null
              /\ now < found[1].locked_until[1] )
            => /\ AccountLocked(reqs'[1].response[1])
               /\ users' = users
    ]_vars

\* a locked account was just tried with its correct password
LockedTriedWithCorrectPassword ==
    /\ Served /\ Known /\ ~WrongPassword
    /\ Loaded.locked_until # Null
    /\ Last.at < Loaded.locked_until[1]
    /\ AccountLocked(Reply)

---------------------------------------------------------------------------
(* C3: an account is locked exactly when locked_until is set and strictly  *)
(* later than the time of the attempt: a login is answered as locked if    *)
(* and only if now < locked_until, and at every now >= locked_until (the   *)
(* instant now = locked_until included) the attempt is admitted although   *)
(* locked_until is still stored, and the correct password logs in.         *)

LockedIffWindowOpen ==
    [][\A e \in Emails, p \in Passwords :
        LET found == get_user_by_email(users, e)
            reply == reqs'[1].response[1]
            open == /\ found[1].locked_until # Null
                    /\ now < found[1].locked_until[1]
        IN  (LoginStep(e, p) /\ found # Null)
            => /\ AccountLocked(reply) <=> open
               /\ ( /\ ~open
                    /\ found[1].is_active
                    /\ verify_password(p, found[1].hashed_password) )
                  => TokenPair(reply)
    ]_vars

\* the correct password was accepted at the very instant locked_until
AdmittedAtEndOfWindow ==
    /\ Served /\ Known /\ ~WrongPassword
    /\ Loaded.locked_until = Some(Last.at)
    /\ TokenPair(Reply)

---------------------------------------------------------------------------
(* C4: every successful login, whatever the counter was and whether        *)
(* locked_until was absent or had passed, leaves the account with          *)
(* failed_login_attempts = 0, locked_until cleared and last_login = now.   *)

SuccessResetsAccount ==
    (Served /\ TokenPair(Reply))
    => /\ Known
       /\ Stored_.failed_login_attempts = 0
       /\ Stored_.locked_until = Null
       /\ Stored_.last_login = Some(Last.at)

\* a login succeeded on an account whose lockout had run out
SucceededAfterLockout ==
    /\ Served /\ TokenPair(Reply)
    /\ Loaded.failed_login_attempts >= max_login_attempts
    /\ Loaded.locked_until # Null
    /\ Loaded.locked_until[1] < Last.at

---------------------------------------------------------------------------
(* C5 (as stated): with max_login_attempts = 5 and a fresh account, the    *)
(* fifth consecutive wrong-password login is itself answered as locked.    *)

\* the attempt that takes the counter from 4 to 5
FifthFailure ==
    /\ Served /\ Known /\ WrongPassword
    /\ Guard(Loaded, Last.at) = Null
    /\ Loaded.locked_until = Null
    /\ Loaded.failed_login_attempts = max_login_attempts - 1

FifthFailureAnsweredLocked == FifthFailure => AccountLocked(Reply)

(* C5 (amended): the fifth consecutive wrong-password login is answered    *)
(* with the same invalid-credentials response as the four before it,       *)
(* while it stores the lockout; the locked response is given from the      *)
(* sixth attempt on, inside the window.                                    *)

FifthFailureAnsweredInvalid ==
    /\ FifthFailure =>
          /\ InvalidCredentials(Reply)
          /\ Stored_.locked_until = Some(Last.at + LockoutTicks)
    /\ ( /\ Served /\ Known
         /\ Loaded.failed_login_attempts = max_login_attempts
         /\ is_locked(Loaded, Last.at) )
       => AccountLocked(Reply)

\* the fifth failure was answered 401 and the sixth attempt can follow
FifthFailureServed ==
    /\ FifthFailure
    /\ Reply.status = 401
    /\ is_locked(Stored_, now)

---------------------------------------------------------------------------
(* C6 (as stated): a login on an account with is_active = false is         *)
(* answered as disabled for every password, every counter value and every  *)
(* locked_until, one in the future included.                               *)

DisabledAlwaysAnsweredDisabled ==
    (Served /\ Known /\ ~Loaded.is_active)
    => (AccountDisabled(Reply) /\ Stored_ = Loaded)

(* C6 (amended): a login on an account with is_active = false leaves the   *)
(* users table unchanged and carries no tokens, for every password and     *)
(* every counter value; it is answered as disabled when the account is     *)
(* not locked at that time, and as locked when locked_until is in the      *)
(* future, because the lockout check is made before the is_active check.   *)

DisabledRejectedAfterLockCheck ==
    [][\A e \in Emails, p \in Passwords :
        LET found == get_user_by_email(users, e)
            reply == reqs'[1].response[1]
        IN  (LoginStep(e, p) /\ found # Null /\ ~found[1].is_active)
            => /\ users' = users
               /\ IF is_locked(found[1], now)
                  THEN AccountLocked(reply)
                  ELSE AccountDisabled(reply)
    ]_vars

\* a disabled account with a counter and a lapsed lockout was tried with
\* its correct password and answered as disabled
DisabledTriedWithCorrectPassword ==
    /\ Served /\ Known /\ ~WrongPassword
    /\ ~Loaded.is_active
    /\ Loaded.failed_login_attempts > 0
    /\ Loaded.locked_until # Null
    /\ AccountDisabled(Reply)

---------------------------------------------------------------------------
(* C7 (as stated): failed_login_attempts stays between 0 and               *)
(* max_login_attempts in every reachable state, and equals                 *)
(* max_login_attempts after every failed attempt that locks the account.   *)

\* the last request was a failed attempt that locked the account
LockingFailure ==
    /\ Served /\ Known /\ WrongPassword
    /\ Guard(Loaded, Last.at) = Null
    /\ Stored_.locked_until = Some(Last.at + LockoutTicks)

CounterWithinThreshold ==
    /\ \A i \in DOMAIN users :
          /\ users[i].failed_login_attempts >= 0
          /\ users[i].failed_login_attempts <= max_login_attempts
    /\ LockingFailure =>
          Stored_.failed_login_attempts = max_login_attempts

(* C7 (amended): failed_login_attempts is never negative; a failed attempt *)
(* that locks the account adds one to the counter and leaves it at         *)
(* max_login_attempts or more: exactly max_login_attempts when it was      *)
(* below before, and above it when the failure follows a lockout that has  *)
(* run out, since only a successful login resets the counter.              *)

CounterAtLeastThresholdWhenLocking ==
    /\ \A i \in DOMAIN users : users[i].failed_login_attempts >= 0
    /\ LockingFailure =>
          /\ Stored_.failed_login_attempts =
                Loaded.failed_login_attempts + 1
          /\ Stored_.failed_login_attempts >= max_login_attempts
          /\ Loaded.failed_login_attempts < max_login_attempts
                => Stored_.failed_login_attempts = max_login_attempts

\* a failure after a lapsed lockout locked the account again
LockedAgainAfterLapse ==
    /\ LockingFailure
    /\ Loaded.locked_until # Null
    /\ Stored_.failed_login_attempts > max_login_attempts

---------------------------------------------------------------------------
(* C8: any k concurrent wrong-password logins on the same unlocked account *)
(* raise the stored failed_login_attempts by exactly k.                    *)

\* the requests answered as a counted failure: wrong password on a row
\* that was loaded active and was not locked when it was answered
CountedFailures ==
    {r \in Requests :
        /\ reqs[r].pc = "done"
        /\ reqs[r].loaded # Null
        /\ Guard(reqs[r].loaded[1], reqs[r].at) = Null
        /\ ~verify_password(reqs[r].password,
                            reqs[r].loaded[1].hashed_password)}

Successes ==
    {r \in Requests :
        reqs[r].pc = "done" /\ reqs[r].response[1].status = 200}

NoLostFailure ==
    Successes = {} =>
        users[1].failed_login_attempts = Cardinality(CountedFailures)

---------------------------------------------------------------------------
(* C9: a login for an email that has no account is answered with the same  *)
(* response (status, detail, no tokens) as a wrong-password login for an   *)
(* existing, active, unlocked account would be at that moment, and leaves  *)
(* the users table unchanged.                                              *)

UnknownEmailAnsweredAsWrongPassword ==
    [][\A e \in Emails, p \in Passwords :
        (LoginStep(e, p) /\ get_user_by_email(users, e) = Null)
        => /\ users' = users
           /\ InvalidCredentials(reqs'[1].response[1])
           /\ \A i \in DOMAIN users, q \in Passwords :
                 ( /\ Guard(users[i], now) = Null
                   /\ ~verify_password(q, users[i].hashed_password) )
                 => reqs'[1].response[1] = WouldReply(users[i], q, now)
    ]_vars

\* an unregistered email was tried while the registered account was
\* active, unlocked and had failures counted
UnknownEmailTried ==
    /\ Served /\ ~Known
    /\ Reply.status = 401
    /\ Guard(users[1], Last.at) = Null
    /\ users[1].failed_login_attempts > 0

---------------------------------------------------------------------------
(* C10: a token issued for a subject with kind access or refresh and any   *)
(* expires_delta, when verified as that kind before the instant of its     *)
(* exp claim, yields the subject (and the user_id) it was issued for.      *)

\* the token in hand is the server's, is verified as the kind it was
\* issued as, before it expires
VerifiedInTime ==
    /\ jwt # Null /\ verdict # Null
    /\ jwt[1].token.key = secret_key
    /\ jwt[1].data.sub # Null
    /\ verdict[1].token_type = jwt[1].kind
    /\ verdict[1].at < FromTimestamp(jwt[1].token.claims.exp)

VerifyReturnsIssuedSubject ==
    VerifiedInTime =>
        /\ verdict[1].result.error = Null
        /\ verdict[1].result.data[1].email = jwt[1].data.sub[1]
        /\ verdict[1].result.data[1].user_id = jwt[1].data.user_id

\* a refresh token with a positive expires_delta was verified a while
\* after it was issued
RefreshTokenVerified ==
    /\ VerifiedInTime
    /\ jwt[1].kind = "refresh"
    /\ jwt[1].expires_delta # Null
    /\ jwt[1].expires_delta[1] > 0
    /\ verdict[1].at > jwt[1].at

---------------------------------------------------------------------------
(* Vocabulary of the token properties                                      *)

\* the token in hand was signed by the server and has been verified
ServerTokenVerified ==
    /\ jwt # Null /\ verdict # Null
    /\ jwt[1].token.key = secret_key

\* the exp and iat claims the token carries, in whole seconds
Exp == jwt[1].token.claims.exp
Iat == jwt[1].token.claims.iat

Failed == verdict[1].result.error # Null
Message == verdict[1].result.error[1]

\* the errors verify_token raises, by the statement that raises them
TokenMalformed == Failed /\ Message[1] = "Token validation failed:"
TokenTypeMismatch == Failed /\ Message[1] = "Invalid token type. Expected"
TokenMissingSubject == Failed /\ Message[1] = "Token missing user information"
TokenExpired == Failed /\ Message[1] = "Token has expired"

\* jwt.decode's own complaint, wrapped in the validation failure
SignatureExpired ==
    Failed /\ Message = <<"Token validation failed:",
                          "Signature has expired.">>
SignatureInvalid ==
    Failed /\ Message = <<"Token validation failed:",
                          "Signature verification failed.">>

---------------------------------------------------------------------------
(* C11: a token issued as access and verified as refresh always fails with *)
(* the type mismatch, whatever its lifetime and the time of verification;  *)
(* and likewise a refresh token where an access token is expected.         *)

\* the server's token was verified as the other kind
VerifiedAsOtherKind ==
    /\ ServerTokenVerified
    /\ verdict[1].token_type # jwt[1].kind

\* the statement as it stands: fails when the exp second has passed, where
\* jwt.decode raises before the type is looked at
OtherKindAlwaysTypeMismatch ==
    VerifiedAsOtherKind => TokenTypeMismatch

\* C11 as amended: a token verified as the other kind is never accepted;
\* the failure is the type mismatch as long as the token's exp second has
\* not passed, and the library's expiry failure afterwards
OtherKindNeverAccepted ==
    VerifiedAsOtherKind =>
        IF Exp >= Timestamp(verdict[1].at)
        THEN /\ TokenTypeMismatch
             /\ Message = <<"Invalid token type. Expected",
                            verdict[1].token_type, "got", jwt[1].kind>>
        ELSE SignatureExpired

\* an access token was presented as a refresh token after its exp second
ExpiredAccessVerifiedAsRefresh ==
    /\ VerifiedAsOtherKind
    /\ jwt[1].kind = "access"
    /\ jwt[1].expires_delta = Some(Seconds(1))
    /\ Exp < Timestamp(verdict[1].at)

---------------------------------------------------------------------------
(* C12: a token issued with expires_delta of minus one second always fails *)
(* verification, with the expiry error and not with the error a bad        *)
(* signature gets.                                                         *)

\* a token issued a second in the past has been verified
MinusOneSecondVerified ==
    /\ jwt # Null /\ verdict # Null
    /\ jwt[1].expires_delta = Some(Seconds(-1))

\* the statement as it stands: it is jwt.decode that finds the token
\* expired, and verify_token reports that as it reports a bad signature
MinusOneSecondFailsAsTokenExpired ==
    MinusOneSecondVerified /\ jwt[1].token.key = secret_key => TokenExpired

\* C12 as amended: a token issued with minus one second always fails
\* verification, as whatever kind it is verified; the error is the
\* validation failure that a bad signature gets too, with the library's
\* text "Signature has expired." in place of "Signature verification
\* failed."
MinusOneSecondFailsValidation ==
    MinusOneSecondVerified =>
        /\ TokenMalformed
        /\ IF jwt[1].token.key = secret_key
           THEN SignatureExpired
           ELSE SignatureInvalid

\* such a token was verified as its own kind in the tick it was issued in
MinusOneSecondVerifiedAtOnce ==
    /\ MinusOneSecondVerified
    /\ jwt[1].token.key = secret_key
    /\ jwt[1].data.sub # Null
    /\ verdict[1].token_type = jwt[1].kind
    /\ verdict[1].at = jwt[1].at

---------------------------------------------------------------------------
(* C13: a correctly signed token of the expected kind is rejected at every *)
(* time from the instant of its exp claim on, that instant included, and   *)
(* accepted at every time before it.                                       *)

\* the server's token, with a subject, was verified as its own kind
VerifiedAsOwnKind ==
    /\ ServerTokenVerified
    /\ jwt[1].data.sub # Null
    /\ verdict[1].token_type = jwt[1].kind

RejectedFromExpiryOn ==
    VerifiedAsOwnKind =>
        (Failed <=> verdict[1].at >= FromTimestamp(Exp))

---------------------------------------------------------------------------
(* C14: every token carries exp strictly greater than iat, whatever the    *)
(* expires_delta it was issued with.                                       *)

\* a token has been issued by the server
TokenIssued == jwt # Null /\ jwt[1].token.key = secret_key

Delta == jwt[1].expires_delta

\* the statement as it stands: fails for a negative expires_delta
ExpAlwaysAfterIat ==
    TokenIssued => Exp > Iat

\* C14 as amended: exp is strictly greater than iat when expires_delta is
\* omitted or zero (the default lifetime applies) or is two seconds or
\* more; with a negative expires_delta exp is not greater than iat, and
\* smaller when the delta is a second or more in the past
ExpAfterIatForLifetimes ==
    TokenIssued =>
        /\ Delta = Null \/ Delta[1] = 0 \/ Delta[1] >= Seconds(2) => Exp > Iat
        /\ Delta # Null /\ Delta[1] < 0 => Exp <= Iat
        /\ Delta # Null /\ Delta[1] <= Seconds(-1) => Exp < Iat

\* a token was issued with a zero expires_delta, and so with the default
\* lifetime
IssuedWithZeroDelta ==
    /\ TokenIssued
    /\ Delta = Some(0)
    /\ Exp > Iat

---------------------------------------------------------------------------
(* Vocabulary of the refresh properties                                    *)

\* a step that serves POST /auth/refresh, and its response
RefreshStep ==
    /\ reqs' # reqs
    /\ reqs'[1].pc = "refreshed"

Refreshment == reqs'[1].response[1]

\* the response is 401 and carries no token
InvalidToken(reply) ==
    /\ reply.status = 401
    /\ reply.detail # Null
    /\ reply.body = Null

\* the subject of the token in hand is an account that is active
SubjectActive ==
    \E i \in DOMAIN users :
        /\ users[i].email = Lower(jwt[1].data.sub[1])
        /\ users[i].is_active

\* the token in hand was issued by the server as a refresh token, and the
\* instant of its exp claim has not come
UnexpiredRefreshToken ==
    /\ jwt[1].token.key = secret_key
    /\ jwt[1].kind = "refresh"
    /\ now < FromTimestamp(jwt[1].token.claims.exp)

---------------------------------------------------------------------------
(* C15: refresh returns a new token pair only for a validly signed,        *)
(* unexpired refresh token whose subject is an existing active account; in *)
(* every other case it answers InvalidToken and issues nothing; and it     *)
(* never changes a field of an account.                                    *)

RefreshIssuesOnlyForValidToken ==
    [][RefreshStep =>
          /\ users' = users
          /\ IF UnexpiredRefreshToken /\ SubjectActive
             THEN TokenPair(Refreshment)
             ELSE InvalidToken(Refreshment)]_vars

---------------------------------------------------------------------------
(* C16: a refresh token is not used up: after a refresh with it succeeded, *)
(* the next ones succeed too as long as it is unexpired and the account    *)
(* active, and the pair the earlier refresh issued stays valid.            *)

\* the token in hand was refreshed with success in the request before
UsedBefore == Uses(jwt[1]) > 0

\* the pair the request before was answered with
EarlierPair == reqs[1].response[1].body[1]

RefreshTokenSurvivesUse ==
    [][RefreshStep /\ UsedBefore /\ UnexpiredRefreshToken /\ SubjectActive =>
          /\ TokenPair(Refreshment)
          /\ refresh_token(users', EarlierPair.refresh_token, now').error
                 = Null
          /\ verify_token(EarlierPair.access_token, "access", now').error
                 = Null]_vars

\* a token that a login issued has been refreshed for the third time, a
\* while after that login
RefreshedThrice ==
    /\ Last.pc = "refreshed"
    /\ Last.uses >= 2
    /\ TokenPair(Reply)
    /\ Last.presented.expires_delta = Null
    /\ Last.at > Last.presented.at

---------------------------------------------------------------------------
(* Vocabulary of the change-password properties                            *)

\* a step that serves POST /users/change-password, its body and response
ChangeStep ==
    /\ reqs' # reqs
    /\ reqs'[1].pc = "changed"

ChangeBody == reqs'[1].body
ChangeReply == reqs'[1].response[1]

\* the token in hand is an unexpired access token of the server for an
\* active account
ValidBearer ==
    /\ jwt # Null
    /\ jwt[1].token.key = secret_key
    /\ jwt[1].kind = "access"
    /\ jwt[1].expires_delta = Null
    /\ SubjectActive

\* the password is the one the account has
IsCurrent(password) == verify_password(password, users[1].hashed_password)

\* the password breaks a length bound or lacks a required character class
BreaksComposition(password) ==
    \/ Len(Spell[password]) < min_password_length
    \/ Len(Spell[password]) > max_password_length
    \/ MissingClasses(Spell[password]) # {}

\* the password contains one of the patterns registration refuses
HasCommonPattern(password) ==
    \E pattern \in common_patterns :
        Contains(Lower(Spell[password]), pattern)

\* the responses of the route
ValidationFailure(reply) ==
    /\ reply.status = 422
    /\ reply.detail # {}
    /\ reply.body = Null

CurrentPasswordIncorrect(reply) ==
    /\ reply.status = 400
    /\ reply.detail = IncorrectMessage
    /\ reply.body = Null

SamePasswordError(reply) ==
    /\ reply.body = Null
    /\ IF reply.status = 422
       THEN SamePasswordMessage \in reply.detail
       ELSE reply.status = 400 /\ reply.detail = SamePasswordMessage

---------------------------------------------------------------------------
(* C17: in changePassword the current password is checked before the new   *)
(* password's policy: a wrong current password with a policy-violating new *)
(* password is answered CurrentPasswordIncorrect.                          *)

\* the statement as it stands: fails for a new password that the schema
\* refuses, which is answered before the handler runs
CurrentCheckedBeforePolicy ==
    [][ChangeStep /\ ValidBearer /\ ~IsCurrent(ChangeBody.current_password)
          /\ ~validate_password_strength[ChangeBody.new_password].valid =>
          CurrentPasswordIncorrect(ChangeReply)]_vars

\* C17 as amended: the request body is validated before the current
\* password is checked: a wrong current password with a new password that
\* breaks the length bounds or lacks a required character class is
\* answered with a validation failure (422), not CurrentPasswordIncorrect,
\* and the current password decides only for a body that passes validation
PolicyCheckedBeforeCurrent ==
    [][ChangeStep /\ ValidBearer /\ ~IsCurrent(ChangeBody.current_password) =>
          /\ BreaksComposition(ChangeBody.new_password) =>
                 ValidationFailure(ChangeReply)
          /\ ~ValidationFailure(ChangeReply) => CurrentPasswordIncorrect(ChangeReply)
          /\ users' = users]_vars

\* the account's password was changed, and then a request with the old
\* password as current and a short new password was refused as invalid
WrongCurrentAndWeakRefused ==
    /\ Last.pc = "changed"
    /\ users[1].hashed_password.salt # 1
    /\ Last.body.current_password = CorrectPassword
    /\ ~IsCurrent(Last.body.current_password)
    /\ Last.body.new_password = "weak"
    /\ Last.body.confirm_new_password = "weak"
    /\ ValidationFailure(Reply)

---------------------------------------------------------------------------
(* C18: changePassword with the current password as new password is        *)
(* rejected with SamePasswordError, and every rejected changePassword      *)
(* leaves the stored hash unchanged.                                       *)

---------------------------------------------------------------------------
(* C19: register rejects every password that the strength checker finds    *)
(* invalid: the registration check and get_strength_score agree on the     *)
(* validity of every password.                                             *)

\* a registration request has been served
RegisterServed == Last.pc = "registered"

\* the checker has been asked about a password
StrengthChecked == verdict # Null

RegisterAgreesWithChecker ==
    /\ RegisterServed /\ ~validate_password_strength[Last.password].valid =>
           ValidationFailure(Reply)
    /\ StrengthChecked =>
           (verdict[1].strength.valid <=>
                PasswordError[verdict[1].password] = Null)

---------------------------------------------------------------------------
(* C20: changePassword rejects, as a validation failure, every new         *)
(* password that contains a common weak pattern, as registration does.     *)

\* an authenticated change request has been served
ChangeServed ==
    /\ Last.pc = "changed"
    /\ Reply.status \notin {401, 403}

CommonPatternRefusedOnChange ==
    ChangeServed /\ HasCommonPattern(Last.body.new_password) =>
        /\ PasswordError[Last.body.new_password] # Null
        /\ ValidationFailure(Reply)

---------------------------------------------------------------------------
(* Vocabulary of the properties of several accounts                        *)

\* a step that serves a login request for `email` with `password`
LoginServed(email, password) ==
    /\ LoginStep(email, password)
    /\ reqs'[1].pc = "done"

\* a step that serves a registration request
RegisterStep ==
    /\ reqs' # reqs
    /\ reqs'[1].pc = "registered"

DuplicateEmail(reply) ==
    /\ reply.status = 400
    /\ reply.detail = "Email already registered"
    /\ reply.body = Null

---------------------------------------------------------------------------
(* C21: email handling is case-insensitive end to end: register stores the *)
(* lower-cased email and rejects a second registration (of an otherwise    *)
(* valid body) whose email differs only by letter case with                *)
(* DuplicateEmail, and login with any case variant of a registered email   *)
(* resolves to the same account: its counters are read and updated.        *)
(* Every stored email is in lower case, so that an email differs from it   *)
(* only by letter case when its lower-cased form equals it.                *)

EmailCaseInsensitive ==
    [][LET lowered == Lower(reqs'[1].email)
       IN  /\ \A i \in DOMAIN users : users'[i].email = users[i].email
           /\ \A i \in DOMAIN users' \ DOMAIN users :
                 /\ users'[i].email = lowered
                 /\ \A j \in DOMAIN users : users[j].email # lowered
           /\ ( /\ RegisterStep
                /\ UserCreate(reqs'[1].password,
                              reqs'[1].confirm_password) = {}
                /\ \E i \in DOMAIN users : users[i].email = lowered )
              => /\ DuplicateEmail(reqs'[1].response[1])
                 /\ users' = users
           /\ (reqs' # reqs /\ reqs'[1].pc = "done")
              => \A i \in DOMAIN users :
                     users[i].email = lowered =>
                         LET attempt == Attempt(Some(users[i]),
                                                reqs'[1].password, now)
                         IN  /\ reqs'[1].loaded = Some(users[i])
                             /\ reqs'[1].response[1] = login(attempt, now)
                             /\ users' = Stored(users, Some(users[i]),
                                                attempt)
    ]_vars

\* the second account was registered, and a wrong-password login spelled
\* in capitals has been counted on it, after an earlier one
CountedUnderOtherSpelling ==
    /\ Served /\ Known /\ WrongPassword
    /\ Last.email = <<"N", "@", "X">>
    /\ Loaded.email = UnknownEmail
    /\ Loaded.failed_login_attempts > 0
    /\ Stored_.failed_login_attempts = Loaded.failed_login_attempts + 1

---------------------------------------------------------------------------
(* Vocabulary of the strength properties                                   *)

\* what the checker said last: the password, its characters, the result
Checked == verdict[1].password
Spelled == Spell[Checked]
Strength == verdict[1].strength

\* the strength levels, from the lowest
LevelRank(level) ==
    CASE level = "very_weak" -> 0
      [] level = "weak" -> 1
      [] level = "medium" -> 2
      [] level = "strong" -> 3
      [] level = "very_strong" -> 4

---------------------------------------------------------------------------
(* C22: evaluating the empty password yields normalized score 0, strength  *)
(* level very_weak and valid = false.                                      *)

EmptyPasswordScoresZero ==
    StrengthChecked /\ Checked = "" =>
        /\ Strength.score = 0
        /\ Strength.strength = "very_weak"
        /\ ~Strength.valid

---------------------------------------------------------------------------
(* C23: each login or refresh issues tokens that differ from every token   *)
(* issued earlier for the same account: successive logins yield distinct   *)
(* access tokens and distinct refresh tokens, a refreshed access token     *)
(* differs from the one it replaces; and within one pair the access token  *)
(* differs from the refresh token.                                         *)

\* a step in which a login or a refresh is answered with a token pair
IssueStep ==
    /\ reqs' # reqs
    /\ reqs'[1].pc \in {"done", "refreshed"}
    /\ TokenPair(reqs'[1].response[1])

\* the pair issued in that step
NewPair == reqs'[1].response[1].body[1]

\* the request before was answered with a pair too
PairBefore ==
    /\ reqs[1].pc \in {"done", "refreshed"}
    /\ TokenPair(reqs[1].response[1])

TokensAlwaysFresh ==
    [][IssueStep =>
          /\ NewPair.access_token # NewPair.refresh_token
          /\ PairBefore =>
                 /\ NewPair.access_token # EarlierPair.access_token
                 /\ NewPair.refresh_token # EarlierPair.refresh_token
      ]_vars

---------------------------------------------------------------------------
(* C24: the length sub-score is 0 whenever the password is shorter than    *)
(* the minimum or longer than the maximum length; otherwise it is 1, plus  *)
(* 1 if the length is at least 12, plus 1 if the length is at least 16.    *)

LengthScoreZeroOutsideBounds ==
    StrengthChecked =>
        LET n == Len(Spelled)
            score == Strength.details.length.score
        IN  /\ score \in {0, 1, 2, 3}
            /\ IF n < min_password_length \/ n > max_password_length
               THEN score = 0
               ELSE score = 1 + (IF n >= 12 THEN 1 ELSE 0)
                              + (IF n >= 16 THEN 1 ELSE 0)

---------------------------------------------------------------------------
(* C25: valid is true exactly when the errors list is empty, and an error  *)
(* is recorded exactly for: length below the minimum, length above the     *)
(* maximum, a required character class that is missing, or a hit in the    *)
(* dictionary of common passwords; the soft patterns (sequences of three   *)
(* characters, keyboard rows, a character three times in a row) lower the  *)
(* score but never make valid false; and a password longer than the        *)
(* maximum is invalid whatever its other sub-scores.                       *)

\* the patterns that cost points only
SoftPattern(password) ==
    \/ \E pattern \in sequences \cup keyboard_patterns :
           Contains(Lower(password), pattern)
    \/ Repetitive(password)

\* the hits in the dictionary
CommonHits(password) ==
    {common \in common_passwords : Contains(Lower(password), common)}

\* the errors that the hard violations of a password call for
Violations(password) ==
    (IF Len(password) < min_password_length
     THEN {TooShortMessage} ELSE {})
    \cup (IF Len(password) > max_password_length
          THEN {TooLongMessage} ELSE {})
    \cup {MissingMessage(class) : class \in MissingClasses(password)}
    \cup {CommonMessage(common) : common \in CommonHits(password)}

ValidIffNoViolation ==
    StrengthChecked =>
        /\ Strength.valid <=> Strength.errors = {}
        /\ Strength.errors = Violations(Spelled)
        /\ SoftPattern(Spelled) =>
               /\ Strength.details.patterns.score < 0
               /\ Strength.details.patterns.valid <=>
                      CommonHits(Spelled) = {}
        /\ Len(Spelled) > max_password_length => ~Strength.valid

\* the checker found a password valid that has a soft pattern
SoftPatternFoundValid ==
    /\ StrengthChecked
    /\ SoftPattern(Spelled)
    /\ Strength.details.patterns.patterns_found.sequences # {}
    /\ Strength.valid

---------------------------------------------------------------------------
(* C26: for every password the normalized score is                         *)
(* clamp(0, 100, total_score / 8 * 100), in [0, 100] also when the total   *)
(* is negative or above 8; the strength level is determined by it alone:   *)
(* very_strong from 80, strong from 60, medium from 40, weak from 20,      *)
(* very_weak below; hence the level is monotone in the total score.        *)

ScoreClampedLevelMonotone ==
    StrengthChecked =>
        /\ Strength.score >= 0
        /\ Strength.score <= Points(100)
        /\ Strength.score * max_possible_score =
               IF Strength.total_score < 0
               THEN 0
               ELSE IF Strength.total_score > max_possible_score
               THEN Points(100) * max_possible_score
               ELSE Points(Strength.total_score) * 100
        /\ Strength.strength = "very_strong" <=>
               Strength.score >= Points(80)
        /\ Strength.strength = "strong" <=>
               Strength.score >= Points(60) /\ Strength.score < Points(80)
        /\ Strength.strength = "medium" <=>
               Strength.score >= Points(40) /\ Strength.score < Points(60)
        /\ Strength.strength = "weak" <=>
               Strength.score >= Points(20) /\ Strength.score < Points(40)
        /\ Strength.strength = "very_weak" <=> Strength.score < Points(20)
        /\ \A other \in Candidates :
               validate_password_strength[other].total_score
                   <= Strength.total_score =>
               LevelRank(validate_password_strength[other].strength)
                   <= LevelRank(Strength.strength)

\* the checker was asked about a password whose total score is above 8
ScoredAboveMaximum ==
    /\ StrengthChecked
    /\ Strength.total_score > max_possible_score
    /\ Strength.score = Points(100)
    /\ Strength.strength = "very_strong"

---------------------------------------------------------------------------
(* Vocabulary of the properties of concurrent requests                     *)

\* a step in which request r is answered
AnswerStep(r) ==
    /\ reqs[r].pc = "loaded"
    /\ reqs'[r].pc = "done"

\* the row that request r loaded, as it is stored when r is answered
StoredNow(r) == RowIn(users, reqs[r].loaded[1].id)

---------------------------------------------------------------------------
(* C27: under any interleaving of concurrent login requests on the same    *)
(* account, once one request has committed a lockout (locked_until in the  *)
(* future), no other request completes as a successful login, issues       *)
(* tokens or clears locked_until before that instant has passed: no        *)
(* password is verified against an account whose stored state is locked.   *)

LockoutHoldsUnderInterleaving ==
    [][\A r \in Requests :
          ( /\ AnswerStep(r)
            /\ reqs[r].loaded # Null
            /\ is_locked(StoredNow(r), now) )
          => /\ AccountLocked(reqs'[r].response[1])
             /\ users' = users
      ]_vars

---------------------------------------------------------------------------
(* C28: under any interleaving of concurrent register requests whose       *)
(* emails are equal after lower-casing, at most one account with that      *)
(* email exists afterwards, and every other request ends with the typed    *)
(* DuplicateEmail outcome ("Email already registered"), never with an      *)
(* untyped infrastructure failure.                                         *)

\* a step in which the registration of client r is completed
CompleteStep(r) ==
    /\ reqs[r].pc = "checked"
    /\ reqs'[r].pc = "registered"

DuplicateRefusedUnderInterleaving ==
    [][/\ \A i, j \in DOMAIN users' :
             users'[i].email = users'[j].email => i = j
       /\ \A r \in Clients :
             CompleteStep(r) =>
                 IF \E i \in DOMAIN users :
                        users[i].email = Lower(reqs[r].email)
                 THEN /\ DuplicateEmail(reqs'[r].response[1])
                      /\ users' = users
                 ELSE reqs'[r].response[1].status = 201
      ]_vars

---------------------------------------------------------------------------
(* C29: the expiry of a lockout does not reset failed_login_attempts: from *)
(* a state with failed_login_attempts at or above max_login_attempts and   *)
(* locked_until at or before now, a single wrong-password login sets       *)
(* locked_until = now + lockout duration again, and so in every later      *)
(* window until a successful login resets the counter.                     *)

RelockedAfterExpiry ==
    [][/\ now' # now => users' = users
       /\ \A e \in Emails, p \in Passwords :
             LET found == get_user_by_email(users, e)
                 after == RowIn(users', found[1].id)
             IN  ( /\ LoginStep(e, p)
                   /\ found # Null
                   /\ found[1].is_active
                   /\ found[1].failed_login_attempts >= max_login_attempts
                   /\ found[1].locked_until # Null
                   /\ found[1].locked_until[1] <= now )
                 => IF verify_password(p, found[1].hashed_password)
                    THEN /\ TokenPair(reqs'[1].response[1])
                         /\ after.failed_login_attempts = 0
                         /\ after.locked_until = Null
                    ELSE /\ InvalidCredentials(reqs'[1].response[1])
                         /\ after.failed_login_attempts =
                                found[1].failed_login_attempts + 1
                         /\ after.locked_until = Some(now + LockoutTicks)
                         /\ is_locked(after, now)
      ]_vars

\* at the very end of a lockout window one wrong password has locked the
\* account for another window
RelockedBySingleFailure ==
    /\ Served /\ Known /\ WrongPassword
    /\ Loaded.failed_login_attempts >= max_login_attempts
    /\ Loaded.locked_until = Some(Last.at)
    /\ Stored_.locked_until = Some(Last.at + LockoutTicks)
    /\ is_locked(Stored_, now)

---------------------------------------------------------------------------
(* C30: a login attempt against an account, whatever its outcome, leaves   *)
(* every field of every other account unchanged; a failed attempt changes  *)
(* at most the account's failed_login_attempts and locked_until (never its *)
(* password hash, is_active or last_login); and failed_login_attempts      *)
(* never decreases except by a successful login of that account.           *)

\* the columns a failed attempt does not touch
KeptColumns == {"id", "email", "hashed_password", "is_active", "last_login"}

====
